---- MODULE Spec2Model ----
(***************************************************************************)
(* Model of the work-log synchronizer.                                     *)
(*                                                                         *)
(*  - push mode:   work_log_sync.sync.engine.SyncEngine (SpecSync)         *)
(*  - export mode: clockify_export.export.build_export (SpecExport)        *)
(*  - mapping:     clockify_export.config.MappingConfig (SpecMapping)      *)
(*  - rounding:    clockify_export.clockify.models.round_to_minute         *)
(*                 (SpecRound)                                             *)
(*  - transport:   clockify_export.clockify.client.ClockifyClient._request *)
(*                 (SpecRequest), get_time_entries (SpecPages)             *)
(*  - dry run:     SyncEngine.sync with dry_run=True next to the same run  *)
(*                 with dry_run=False (SpecDryRun)                         *)
(*  - OAuth:       work_log_sync.bamboohr.oauth.BambooHROAuthClient        *)
(*                 (SpecOAuth)                                             *)
(*                                                                         *)
(* Python values that may be None, an int or a str are modelled as pairs   *)
(* <<type, text>>, so that 10 and "10" are different values which str()    *)
(* maps to the same string.                                                *)
(***************************************************************************)
EXTENDS Integers, Sequences, FiniteSets, TLC

VARIABLES
    \* ---- push mode: SyncEngine.sync / SyncResult ----
    pc,               \* position of sync(): "start", "loop", "done", "aborted"
    dry_run,          \* sync() argument
    interactive,      \* sync() argument
    mapping,          \* Config._mapping["projects"]
    existing_entries, \* snapshot returned by get_timesheet_entries
    existing_keys,    \* the dedup set of sync()
    nEntries,         \* len(clockify_entries)
    idx,              \* number of entries the loop has processed
    entries_synced,
    entries_skipped,
    entries_failed,
    unmapped_entries,
    errors,
    last_sync_date,   \* state.json "last_sync_date"
    calls,            \* history: the create_timesheet_entry calls of the run
    last,             \* history: the entry classified by the latest iteration
    \* ---- export mode: build_export ----
    xpc,              \* position of build_export(): "loop", "done"
    xidx,             \* number of raw entries the loop has consumed
    xn,               \* len(time_entries)
    converted,        \* local list `converted`
    result,           \* ExportResult
    xhist,            \* history: per raw entry, what the loop did with it
    xlast,            \* history: what the latest iteration read of its raw entry
    \* ---- MappingConfig ----
    entries_,         \* MappingConfig._entries
    found,            \* the value returned by find(), when it was the latest call
    query,            \* the arguments of find(), when it was the latest call
    lastAdded,        \* history: per pair, the entry most recently passed to add()
    nAdds,            \* number of add() calls so far
    \* ---- round_to_minute ----
    dt_in,            \* the datetime passed to round_to_minute
    dt_out,           \* the datetime it returned, NoDatetime before the call
    \* ---- ClockifyClient._request ----
    rq_pc,            \* position of _request(): "try", "retry_status",
                      \* "retry_transport", "returned", "raised"
    rq_sent,          \* history: outcome of each self.client.request of the call
    rq_calls,         \* number of _request() calls started on the client
    \* ---- ClockifyClient.get_time_entries ----
    pg_pc,            \* position of get_time_entries(): "loop", "returned", "raised"
    page,             \* local `page`
    pg_entries,       \* local `all_entries`
    pg_hist,          \* history: per _request call, the page asked for and the data
    \* ---- sync(dry_run=True) next to sync(dry_run=False) ----
    dr_pc,            \* position of both runs: "start", "loop", "done"
    dr_mapping,       \* Config._mapping["projects"] of both runs
    dr_n,             \* len(clockify_entries) of both runs
    dr_idx,           \* number of entries both loops have processed
    dry_result,       \* SyncResult and dedup set of the dry run
    real_result,      \* SyncResult and dedup set of the run that writes
    \* ---- BambooHROAuthClient ----
    now,              \* datetime.now(timezone.utc), in ticks
    token_,           \* BambooHROAuthClient._token
    stored,           \* tokens.json: service name -> stored string
    oa_last           \* history: the latest call on the client and what it did

syncVars == <<pc, dry_run, interactive, mapping, existing_entries, existing_keys,
              nEntries, idx, entries_synced, entries_skipped, entries_failed,
              unmapped_entries, errors, last_sync_date, calls, last>>
exportVars == <<xpc, xidx, xn, converted, result, xhist, xlast>>
mapVars == <<entries_, found, query, lastAdded, nAdds>>
roundVars == <<dt_in, dt_out>>
requestVars == <<rq_pc, rq_sent, rq_calls>>
pageVars == <<pg_pc, page, pg_entries, pg_hist>>
pairVars == <<dr_pc, dr_mapping, dr_n, dr_idx, dry_result, real_result>>
oauthVars == <<now, token_, stored, oa_last>>
vars == <<syncVars, exportVars, mapVars, roundVars, requestVars, pageVars, pairVars,
          oauthVars>>

----------------------------------------------------------------------------
\* Bounds

MaxEntries == 2      \* entries fetched by one sync() run
MaxRaw == 3          \* raw entries handed to one build_export() call
MaxAdds == 4         \* add() calls on one MappingConfig
MaxRequests == 3     \* _request() calls on one ClockifyClient
MaxPages == 3        \* pages one get_time_entries() call asks for
MaxTime == 3         \* ticks of the clock during the life of one OAuth client

----------------------------------------------------------------------------
\* Python values

None == <<"none", "None">>
IntId(s) == <<"int", s>>
StrId(s) == <<"str", s>>

\* str(x): str(10) = "10", str("10") = "10", str(None) = "None"
Str(x) == <<"str", x[2]>>

\* bool(x) of None, an int or a str
Truthy(x) == x # None /\ x[2] # "" /\ x # IntId("0")

----------------------------------------------------------------------------
\* Push mode: work_log_sync

\* SyncResult.add_success, add_skip, add_failure (the counter), add_unmapped
add_success_twice(n) == n + 2
add_success(n) == n + 1
add_skip_uncounted(n) == n
add_skip(n) == n + 1
add_failure_twice(n) == n + 2
add_failure(n) == n + 1
add_unmapped(list, key) == Append(list, key)

\* A value of Config._mapping["projects"][key]; present = FALSE stands for
\* "no such key" (get_mapping_for returns None).
NoMapping == [present |-> FALSE, skip |-> FALSE, pid |-> None, tid |-> None]
SkipMapping == [present |-> TRUE, skip |-> TRUE, pid |-> None, tid |-> None]
Mapped(p, t) == [present |-> TRUE, skip |-> FALSE, pid |-> p, tid |-> t]

\* Mappings as mapping.yaml can hold them: ids typed by the interactive
\* prompt are strings, ids written by hand in YAML load as integers.
MappingValues ==
    { NoMapping, SkipMapping,
      Mapped(StrId("10"), StrId("24")),
      Mapped(IntId("10"), IntId("24")),
      Mapped(StrId("10"), None),
      Mapped(None, None) }

\* What TaskMapper._prompt_for_new_mapping can return
NewMappings == { Mapped(StrId("10"), StrId("24")), Mapped(StrId("10"), None) }

\* project_map: Clockify project id -> project name
ProjectMap == [p \in {"p1"} |-> "P"]

\* ClockifyTimeEntry as the engine reads it; "" stands for an absent id
ClockifyEntries ==
    [project_id : {"", "p1", "px"}, task_id : {"", "t1"},
     date : {1}, hours : {1, 2}, hasEnd : BOOLEAN]

\* TaskMapper.get_unmapped_key; <<p, "">> is the key "p", <<p, t>> is "p:t"
get_unmapped_key(project_name, task_name) == <<project_name, task_name>>

MappingKeys == { <<"P", "">>, <<"P", "task_t1">> }

\* Config.get_mapping_for
get_mapping_for(m, key) == IF key \in DOMAIN m THEN m[key] ELSE NoMapping

\* Config.should_skip
should_skip(m, key) ==
    LET mp == get_mapping_for(m, key) IN mp.present /\ mp.skip

\* Config.update_mapping
update_mapping(m, key, mp) ==
    [k \in (DOMAIN m) \cup {key} |-> IF k = key THEN mp ELSE m[k]]

\* BambooTimeEntry as returned by get_timesheet_entries
BambooEntry(d, p, t, h) == [date |-> d, project_id |-> p, task_id |-> t, hours |-> h]

\* The snapshots the destination can return
Snapshots ==
    { {},
      { BambooEntry(1, IntId("10"), IntId("24"), 2) },
      { BambooEntry(1, StrId("10"), StrId("24"), 2) } }

\* existing_keys of sync(): (e.date, str(e.project_id), str(e.task_id), e.hours)
ExistingKeys(es) == { <<e.date, Str(e.project_id), Str(e.task_id), e.hours>> : e \in es }

\* pydantic validation of BambooTimeEntry(...): project_id and task_id are
\* declared int | str, so a None raises ValidationError
ValidBambooTimeEntry(p, t) == p # None /\ t # None

NoKey == <<0, None, None, 0>>
NoLast == [entry |-> [project_id |-> "", task_id |-> "", date |-> 0, hours |-> 0,
                      hasEnd |-> TRUE],
           outcome |-> "none", key |-> NoKey, checked |-> FALSE,
           called |-> FALSE, ok |-> FALSE, createdBefore |-> FALSE]

\* existing_keys.add(duplicate_key) after a successful create
AddCreatedKey_forgotten(keys, key) == keys
AddCreatedKey(keys, key) == keys \cup {key}

\* ClockifyTimeEntry.end_time is None
IsRunningTimer(e) == ~e.hasEnd

\* What the user can type at TaskMapper.prompt_for_mapping: a menu choice
\* and, for choice 1, the new mapping
PromptAnswers ==
    { [choice |-> "3", new |-> NoMapping], [choice |-> "2", new |-> NoMapping] }
    \cup { [choice |-> "1", new |-> mp] : mp \in NewMappings }
NoAnswer == [choice |-> "3", new |-> NoMapping]

\* TaskMapper.prompt_for_mapping: choice 3 returns {"skip": True}, choice 1
\* the new mapping. Choice 2 calls Config.get_all_mappings, which Config
\* does not define: the AttributeError leaves _sync_entry.
PromptRaises(answer) == answer.choice = "2"
prompt_for_mapping(answer) ==
    IF answer.choice = "3" THEN SkipMapping ELSE answer.new

\* SyncEngine._sync_entry on entry e, with the prompt's answer and the
\* outcome of the create call chosen by the environment. The value is the
\* effect of the call: the outcome recorded in the result, the mapping and
\* dedup set afterwards, and whether create_timesheet_entry was called.
Effect(o, m, keys, key, checked, called, ok) ==
    [outcome |-> o, mapping |-> m, keys |-> keys, key |-> key,
     checked |-> checked, called |-> called, ok |-> ok]

\* The except clause around create_timesheet_entry: add_failure, and the
\* dedup set stays as it was
CreateFailed_key_added(m, keys, duplicate_key) ==
    Effect("failed", m, AddCreatedKey(keys, duplicate_key), duplicate_key,
           TRUE, TRUE, FALSE)
CreateFailed(m, keys, duplicate_key) ==
    Effect("failed", m, keys, duplicate_key, TRUE, TRUE, FALSE)

CreateStep(e, m, keys, dry, createOk, mp, mapping_key) ==
    LET bamboo_project_id == mp.pid
        bamboo_task_id == mp.tid
        duplicate_key == <<e.date, bamboo_project_id, bamboo_task_id, e.hours>>
    IN  IF ~Truthy(bamboo_project_id)
        THEN Effect("unmapped", m, keys, NoKey, FALSE, FALSE, FALSE)
        ELSE IF duplicate_key \in keys
        THEN Effect("skipped", m, keys, duplicate_key, TRUE, FALSE, FALSE)
        ELSE IF ~ValidBambooTimeEntry(bamboo_project_id, bamboo_task_id)
        THEN Effect("raised", m, keys, duplicate_key, TRUE, FALSE, FALSE)
        ELSE IF dry
        THEN Effect("synced", m, keys, duplicate_key, TRUE, FALSE, FALSE)
        ELSE IF createOk
        THEN Effect("synced", m, AddCreatedKey(keys, duplicate_key), duplicate_key,
                    TRUE, TRUE, TRUE)
        ELSE CreateFailed(m, keys, duplicate_key)

sync_entry(e, m, keys, dry, inter, answer, createOk) ==
    IF e.project_id = ""
    THEN Effect("skipped", m, keys, NoKey, FALSE, FALSE, FALSE)
    ELSE IF e.project_id \notin DOMAIN ProjectMap
    THEN Effect("skipped", m, keys, NoKey, FALSE, FALSE, FALSE)
    ELSE
      LET task_name == IF e.task_id # "" THEN "task_" \o e.task_id ELSE ""
          mapping_key == get_unmapped_key(ProjectMap[e.project_id], task_name)
          mp0 == get_mapping_for(m, mapping_key)
      IN  IF should_skip(m, mapping_key)
          THEN Effect("skipped", m, keys, NoKey, FALSE, FALSE, FALSE)
          ELSE IF ~mp0.present /\ inter
          THEN IF PromptRaises(answer)
               THEN Effect("raised", m, keys, NoKey, FALSE, FALSE, FALSE)
               ELSE
                 LET mp1 == prompt_for_mapping(answer) IN
                 IF mp1.present
                 THEN LET m1 == update_mapping(m, mapping_key, mp1)
                      IN  IF should_skip(m1, mapping_key)
                          THEN Effect("unmapped", m1, keys, NoKey, FALSE, FALSE, FALSE)
                          ELSE CreateStep(e, m1, keys, dry, createOk, mp1, mapping_key)
                 ELSE Effect("unmapped", m, keys, NoKey, FALSE, FALSE, FALSE)
          ELSE IF ~mp0.present \/ should_skip(m, mapping_key)
          THEN Effect("unmapped", m, keys, NoKey, FALSE, FALSE, FALSE)
          ELSE CreateStep(e, m, keys, dry, createOk, mp0, mapping_key)

\* The environment is asked only when _sync_entry gets that far: the prompt
\* when an entry with a known project has no mapping and the run is
\* interactive, the create call when the non-dry-run reaches it.
Prompts(e, m, inter) ==
    /\ inter
    /\ e.project_id \in DOMAIN ProjectMap
    /\ LET task_name == IF e.task_id # "" THEN "task_" \o e.task_id ELSE ""
           mapping_key == get_unmapped_key(ProjectMap[e.project_id], task_name)
       IN  ~get_mapping_for(m, mapping_key).present

Creates(e, m, keys, dry, inter, answer) ==
    sync_entry(e, m, keys, dry, inter, answer, TRUE).called

\* The mapping key of an entry that has one (for unmapped_entries)
MappingKeyOf(e) ==
    get_unmapped_key(ProjectMap[e.project_id],
                     IF e.task_id # "" THEN "task_" \o e.task_id ELSE "")

\* sync(): the prerequisite fetches all succeed
SyncFetchOk ==
    /\ pc = "start"
    /\ \E n \in 0..MaxEntries, snap \in Snapshots :
         /\ nEntries' = n
         /\ existing_entries' = snap
         /\ existing_keys' = ExistingKeys(snap)
    /\ pc' = "loop"
    /\ UNCHANGED <<dry_run, interactive, mapping, idx, entries_synced, entries_skipped,
                   entries_failed, unmapped_entries, errors, last_sync_date, calls, last>>
    /\ UNCHANGED <<exportVars, mapVars, roundVars, requestVars,
                   pageVars, pairVars, oauthVars>>

\* sync(): one of the prerequisite fetches raises; both except clauses
\* record one failure and return
SyncFetchFails ==
    /\ pc = "start"
    /\ \E which \in {"get_current_user", "get_time_entries", "list_projects",
                     "get_employee", "get_timesheet_entries"} :
         errors' = Append(errors, which)
    /\ entries_failed' = add_failure(entries_failed)
    /\ pc' = "aborted"
    /\ UNCHANGED <<dry_run, interactive, mapping, existing_entries, existing_keys,
                   nEntries, idx, entries_synced, entries_skipped, unmapped_entries,
                   last_sync_date, calls, last>>
    /\ UNCHANGED <<exportVars, mapVars, roundVars, requestVars,
                   pageVars, pairVars, oauthVars>>

\* One iteration of `for entry in clockify_entries`, including the
\* except clause around _sync_entry
SyncEntry ==
    /\ pc = "loop"
    /\ idx < nEntries
    /\ \E e \in ClockifyEntries :
       \E answer \in (IF Prompts(e, mapping, interactive)
                       THEN PromptAnswers ELSE {NoAnswer}) :
       \E createOk \in (IF Creates(e, mapping, existing_keys, dry_run, interactive, answer)
                         THEN BOOLEAN ELSE {TRUE}) :
         LET eff == sync_entry(e, mapping, existing_keys, dry_run, interactive,
                               answer, createOk)
             outcome == IF eff.outcome = "raised" THEN "failed" ELSE eff.outcome
         IN  /\ mapping' = eff.mapping
             /\ existing_keys' = eff.keys
             /\ entries_synced' = IF outcome = "synced"
                                   THEN add_success(entries_synced) ELSE entries_synced
             /\ entries_skipped' = IF outcome = "skipped"
                                    THEN add_skip(entries_skipped) ELSE entries_skipped
             /\ entries_failed' = IF outcome = "failed"
                                   THEN add_failure(entries_failed) ELSE entries_failed
             /\ unmapped_entries' = IF outcome = "unmapped"
                                     THEN add_unmapped(unmapped_entries, MappingKeyOf(e))
                                     ELSE unmapped_entries
             /\ errors' = IF outcome = "failed"
                           THEN Append(errors, IF eff.outcome = "raised"
                                               THEN "raised in _sync_entry"
                                               ELSE "create failed")
                           ELSE errors
             /\ calls' = IF eff.called
                          THEN Append(calls, [key |-> eff.key, ok |-> eff.ok,
                                              running |-> IsRunningTimer(e)])
                          ELSE calls
             /\ last' = [entry |-> e, outcome |-> outcome, key |-> eff.key,
                         checked |-> eff.checked, called |-> eff.called, ok |-> eff.ok,
                         createdBefore |->
                             \E i \in 1..Len(calls) : calls[i].ok /\ calls[i].key = eff.key]
    /\ idx' = idx + 1
    /\ UNCHANGED <<pc, dry_run, interactive, existing_entries, nEntries, last_sync_date>>
    /\ UNCHANGED <<exportVars, mapVars, roundVars, requestVars,
                   pageVars, pairVars, oauthVars>>

\* After the loop: set_last_sync_date unless dry_run, then return
SyncFinish_always_sets_date ==
    /\ pc = "loop"
    /\ idx = nEntries
    /\ last_sync_date' = "now"
    /\ pc' = "done"
    /\ UNCHANGED <<dry_run, interactive, mapping, existing_entries, existing_keys,
                   nEntries, idx, entries_synced, entries_skipped, entries_failed,
                   unmapped_entries, errors, calls, last>>
    /\ UNCHANGED <<exportVars, mapVars, roundVars, requestVars,
                   pageVars, pairVars, oauthVars>>
SyncFinish ==
    /\ pc = "loop"
    /\ idx = nEntries
    /\ last_sync_date' = IF dry_run THEN last_sync_date ELSE "now"
    /\ pc' = "done"
    /\ UNCHANGED <<dry_run, interactive, mapping, existing_entries, existing_keys,
                   nEntries, idx, entries_synced, entries_skipped, entries_failed,
                   unmapped_entries, errors, calls, last>>
    /\ UNCHANGED <<exportVars, mapVars, roundVars, requestVars,
                   pageVars, pairVars, oauthVars>>

SyncIdle ==
    /\ pc = "idle"
    /\ dry_run = FALSE /\ interactive = FALSE
    /\ mapping = [k \in {} |-> NoMapping]
    /\ existing_entries = {} /\ existing_keys = {}
    /\ nEntries = 0 /\ idx = 0
    /\ entries_synced = 0 /\ entries_skipped = 0 /\ entries_failed = 0
    /\ unmapped_entries = <<>> /\ errors = <<>>
    /\ last_sync_date = "never"
    /\ calls = <<>> /\ last = NoLast

\* xlast before the first iteration
NoRead == [did |-> "none", id |-> 0, description |-> <<>>, project_id |-> "",
           task_id |-> "", start |-> 0, end |-> 0]

ExportIdle ==
    /\ xpc = "idle" /\ xidx = 0 /\ xn = 0
    /\ converted = <<>>
    /\ result = [entries |-> <<>>, warnings |-> <<>>, unmapped |-> <<>>]
    /\ xhist = <<>>
    /\ xlast = NoRead

MapIdle ==
    /\ entries_ = <<>>
    /\ found = <<>> /\ query = <<>>
    /\ lastAdded = <<>>
    /\ nAdds = 0

\* dt_out before round_to_minute has returned
NoDatetime == [t |-> 0 - 1, microsecond |-> 0]

RoundIdle ==
    /\ dt_in = NoDatetime /\ dt_out = NoDatetime

RequestIdle ==
    /\ rq_pc = "idle" /\ rq_sent = <<>> /\ rq_calls = 0

PagesIdle ==
    /\ pg_pc = "idle" /\ page = 0 /\ pg_entries = <<>> /\ pg_hist = <<>>

\* A SyncResult with the dedup set of its run
NewResult(keys) ==
    [entries_synced |-> 0, entries_skipped |-> 0, entries_failed |-> 0,
     unmapped_entries |-> <<>>, existing_keys |-> keys]

PairIdle ==
    /\ dr_pc = "idle" /\ dr_mapping = [k \in {} |-> NoMapping]
    /\ dr_n = 0 /\ dr_idx = 0
    /\ dry_result = NewResult({}) /\ real_result = NewResult({})

\* self._token is None; oa_last before the first call
NoToken == [access_token |-> 0, refresh_token |-> None, expires_at |-> 0 - 1]
NoCall == [op |-> "none", outcome |-> "none", value |-> NoToken, posts |-> 0,
           at |-> 0, token_before |-> NoToken, stored_before |-> [k \in {} |-> NoToken],
           response |-> NoToken]

OAuthIdle ==
    /\ now = 0 /\ token_ = NoToken
    /\ stored = [k \in {} |-> NoToken]
    /\ oa_last = NoCall

\* A SyncEngine on a loaded configuration, at the call of sync()
SyncInit ==
    /\ pc = "start"
    /\ dry_run \in BOOLEAN
    /\ interactive \in BOOLEAN
    /\ mapping \in [MappingKeys -> MappingValues]
    /\ existing_entries = {} /\ existing_keys = {}
    /\ nEntries = 0 /\ idx = 0
    /\ entries_synced = 0 /\ entries_skipped = 0 /\ entries_failed = 0
    /\ unmapped_entries = <<>> /\ errors = <<>>
    /\ last_sync_date = "never"
    /\ calls = <<>> /\ last = NoLast
    /\ ExportIdle /\ MapIdle /\ RoundIdle /\ RequestIdle
    /\ PagesIdle /\ PairIdle /\ OAuthIdle

SyncNext ==
    \/ SyncFetchOk
    \/ SyncFetchFails
    \/ SyncEntry
    \/ SyncFinish

SpecSync == SyncInit /\ [][SyncNext]_vars

----------------------------------------------------------------------------
\* sync(dry_run=True) and sync(dry_run=False) on the same entries, mapping
\* and destination snapshot, non-interactive, every create call succeeding

\* The SyncResult and dedup set after _sync_entry had effect eff on entry e
Tally(r, e, eff) ==
    LET outcome == IF eff.outcome = "raised" THEN "failed" ELSE eff.outcome
    IN  [entries_synced |-> IF outcome = "synced"
                            THEN add_success(r.entries_synced) ELSE r.entries_synced,
         entries_skipped |-> IF outcome = "skipped"
                             THEN add_skip(r.entries_skipped) ELSE r.entries_skipped,
         entries_failed |-> IF outcome = "failed"
                            THEN add_failure(r.entries_failed) ELSE r.entries_failed,
         unmapped_entries |-> IF outcome = "unmapped"
                              THEN add_unmapped(r.unmapped_entries, MappingKeyOf(e))
                              ELSE r.unmapped_entries,
         existing_keys |-> eff.keys]

\* Both runs fetch the same entries and the same snapshot
PairFetch ==
    /\ dr_pc = "start"
    /\ \E n \in 0..MaxEntries, snap \in Snapshots :
         /\ dr_n' = n
         /\ dry_result' = NewResult(ExistingKeys(snap))
         /\ real_result' = NewResult(ExistingKeys(snap))
    /\ dr_pc' = "loop"
    /\ UNCHANGED <<dr_mapping, dr_idx>>
    /\ UNCHANGED <<syncVars, exportVars, mapVars, roundVars, requestVars,
                   pageVars, oauthVars>>

\* Both loops process their next entry, which is the same one
PairEntry ==
    /\ dr_pc = "loop"
    /\ dr_idx < dr_n
    /\ \E e \in ClockifyEntries :
         /\ dry_result' =
              Tally(dry_result, e,
                    sync_entry(e, dr_mapping, dry_result.existing_keys,
                               TRUE, FALSE, NoAnswer, TRUE))
         /\ real_result' =
              Tally(real_result, e,
                    sync_entry(e, dr_mapping, real_result.existing_keys,
                               FALSE, FALSE, NoAnswer, TRUE))
    /\ dr_idx' = dr_idx + 1
    /\ UNCHANGED <<dr_pc, dr_mapping, dr_n>>
    /\ UNCHANGED <<syncVars, exportVars, mapVars, roundVars, requestVars,
                   pageVars, oauthVars>>

\* Both runs return
PairFinish ==
    /\ dr_pc = "loop"
    /\ dr_idx = dr_n
    /\ dr_pc' = "done"
    /\ UNCHANGED <<dr_mapping, dr_n, dr_idx, dry_result, real_result>>
    /\ UNCHANGED <<syncVars, exportVars, mapVars, roundVars, requestVars,
                   pageVars, oauthVars>>

PairInit ==
    /\ dr_pc = "start"
    /\ dr_mapping \in [MappingKeys -> MappingValues]
    /\ dr_n = 0 /\ dr_idx = 0
    /\ dry_result = NewResult({}) /\ real_result = NewResult({})
    /\ SyncIdle /\ ExportIdle /\ MapIdle /\ RoundIdle /\ RequestIdle
    /\ PagesIdle /\ OAuthIdle

PairNext ==
    \/ PairFetch
    \/ PairEntry
    \/ PairFinish

SpecDryRun == PairInit /\ [][PairNext]_vars

----------------------------------------------------------------------------
\* MappingConfig: clockify_export.config

\* MappingEntry; clockify_task and bamboo_task_id may be None
MappingEntry(cp, ct, bp, bt) ==
    [clockify_project |-> cp, clockify_task |-> ct,
     bamboo_project_id |-> bp, bamboo_task_id |-> bt]

\* Index of the first entry of the list with the given project and task,
\* 0 when there is none (a `for` loop that returns at the first hit)
FirstIndex(list, clockify_project, clockify_task) ==
    LET hits == { i \in 1..Len(list) :
                    /\ list[i].clockify_project = clockify_project
                    /\ list[i].clockify_task = clockify_task }
    IN  IF hits = {} THEN 0 ELSE CHOOSE i \in hits : \A j \in hits : i <= j

\* MappingConfig.find; the value is <<>> for None and <<entry>> for an entry
find_single_pass(list, clockify_project, clockify_task) ==
    LET hits == { i \in 1..Len(list) :
                    /\ list[i].clockify_project = clockify_project
                    /\ ( \/ list[i].clockify_task = clockify_task
                         \/ list[i].clockify_task = None ) }
    IN  IF hits = {} THEN <<>>
        ELSE <<list[CHOOSE i \in hits : \A j \in hits : i <= j]>>
find(list, clockify_project, clockify_task) ==
    LET i == FirstIndex(list, clockify_project, clockify_task)
        j == FirstIndex(list, clockify_project, None)
    IN  IF i # 0 THEN <<list[i]>>
        ELSE IF clockify_task # None /\ j # 0 THEN <<list[j]>>
        ELSE <<>>

\* MappingConfig.add: the new list (add then saves it)
add_append_only(list, entry) == Append(list, entry)
add(list, entry) ==
    Append(SelectSeq(list, LAMBDA en :
                ~(en.clockify_project = entry.clockify_project
                  /\ en.clockify_task = entry.clockify_task)),
           entry)

\* MappingConfig.all_entries
all_entries(list) == list

\* The entries and queries of the mapping runs
MapProjects == {"P", "Q"}
MapTasks == {None, StrId("T")}
MapTargets == { <<IntId("10"), IntId("24")>>, <<IntId("20"), None>> }
MapEntries ==
    { MappingEntry(cp, ct, tg[1], tg[2]) : cp \in MapProjects, ct \in MapTasks,
                                          tg \in MapTargets }

PairOf(en) == <<en.clockify_project, en.clockify_task>>

MapAdd ==
    /\ nAdds < MaxAdds
    /\ \E en \in MapEntries :
         /\ entries_' = add(entries_, en)
         /\ lastAdded' = [pr \in (DOMAIN lastAdded) \cup {PairOf(en)} |->
                             IF pr = PairOf(en) THEN en ELSE lastAdded[pr]]
    /\ nAdds' = nAdds + 1
    /\ found' = <<>> /\ query' = <<>>
    /\ UNCHANGED <<syncVars, exportVars, roundVars, requestVars,
                   pageVars, pairVars, oauthVars>>

MapFind ==
    /\ \E cp \in MapProjects, ct \in MapTasks :
         /\ query' = <<cp, ct>>
         /\ found' = find(entries_, cp, ct)
    /\ UNCHANGED <<entries_, lastAdded, nAdds>>
    /\ UNCHANGED <<syncVars, exportVars, roundVars, requestVars,
                   pageVars, pairVars, oauthVars>>

\* An empty MappingConfig
MapInit ==
    /\ entries_ = <<>>
    /\ found = <<>> /\ query = <<>>
    /\ lastAdded = <<>>
    /\ nAdds = 0

----------------------------------------------------------------------------
\* Export mode: clockify_export

\* Seconds in a minute, an hour and a day of the datetime arithmetic
Minute == 60
Hour == 60 * Minute
Day == 24 * Hour

\* datetime.astimezone(tz) of a UTC instant, for the zone of the export
\* (Europe/Prague outside DST); instants are seconds since an epoch midnight
utcoffset == 1 * Hour
astimezone_unshifted(t) == t
astimezone(t) == t + utcoffset

\* round_to_minute on the seconds of a datetime: dt.second is dt % Minute
round_to_minute_half_down(dt) ==
    IF (dt % Minute) > 30
    THEN (dt - (dt % Minute)) + Minute
    ELSE dt - (dt % Minute)
round_to_minute(dt) ==
    IF (dt % Minute) >= 30
    THEN (dt - (dt % Minute)) + Minute
    ELSE dt - (dt % Minute)

\* datetime.date(): the day number; strftime("%H:%M"): the minute of the
\* day (zero-padded "HH:MM" strings compare as these numbers do)
DateOf(dt) == dt \div Day
strftime_HM(dt) == (dt % Day) \div Minute

NoEnd == 0 - 1

\* ClockifyTimeEntry.end_time is None (running timer), as build_export tests it
end_time_never_none(e) == FALSE
end_time_is_None(e) == e.end = NoEnd

\* ClockifyTimeEntry.local_start_time / local_end_time
local_start_time(e) == round_to_minute(astimezone(e.start))
local_end_time(e) ==
    IF e.end = NoEnd THEN NoEnd ELSE round_to_minute(astimezone(e.end))

\* project_names and task_names handed to build_export
project_names == [p \in {"p1", "p2"} |-> IF p = "p1" THEN "P" ELSE "Q"]
task_names == [t \in {"t1"} |-> "T"]

\* project_names.get(entry.project_id or "", "")
ProjectName(e) ==
    IF e.project_id \in DOMAIN project_names THEN project_names[e.project_id] ELSE ""
\* task_names.get(entry.task_id or "") if entry.task_id else None
TaskName(e) ==
    IF e.task_id # "" /\ e.task_id \in DOMAIN task_names
    THEN StrId(task_names[e.task_id]) ELSE None

\* Time intervals of the raw entries (UTC): between 07:00:00, 07:59:40 and
\* 09:00:00 of day 1, one on day 2, one that ends after local midnight, and
\* a running timer
At(d, h, m, sec) == d * Day + h * Hour + m * Minute + sec
RawIntervals ==
    { <<At(1, 7, 0, 0), At(1, 7, 59, 40)>>,
      <<At(1, 7, 59, 40), At(1, 9, 0, 0)>>,
      <<At(1, 7, 0, 0), At(1, 9, 0, 0)>>,
      <<At(2, 8, 0, 0), At(2, 12, 0, 0)>>,
      <<At(1, 9, 0, 0), At(1, 23, 30, 0)>>,
      <<At(1, 7, 0, 0), NoEnd>> }

\* The i-th raw ClockifyTimeEntry of a batch: id i, description "" or a text
\* of its own (written i), "" for an absent project or task id, "px" for a
\* project id that project_names does not hold
RawEntries(i) ==
    { [id |-> i, description |-> d, project_id |-> p, task_id |-> t,
       start |-> iv[1], end |-> iv[2]] :
         d \in {<<>>, <<i>>}, p \in {"", "p1", "p2", "px"}, t \in {"", "t1"},
         iv \in RawIntervals }

\* The mapping configuration of the export runs: project P is mapped with
\* task T and without a task, project Q is not mapped (the fallback of find
\* to a project-level entry is exercised by the find calls of SpecMapping)
ExportMappings ==
    { << MappingEntry("P", StrId("T"), IntId("10"), IntId("24")),
         MappingEntry("P", None, IntId("10"), None) >> }

\* ExportEntry; a note is the list of the texts joined by "; " (the empty
\* note is the empty list). src is history: the ids of the raw entries the
\* entry was built from.
ExportEntry(d, st, en, note, pid, tid, src) ==
    [date |-> d, start |-> st, end |-> en, note |-> note,
     project_id |-> pid, task_id |-> tid, src |-> src]

\* converted.sort(key=lambda e: (e.date, e.start)): stable insertion
KeyLess_by_start_only(a, b) == a.start < b.start
KeyLess(a, b) == a.date < b.date \/ (a.date = b.date /\ a.start < b.start)
RECURSIVE InsertSorted(_, _)
InsertSorted(sorted, e) ==
    IF sorted = <<>> THEN <<e>>
    ELSE IF KeyLess(e, sorted[Len(sorted)])
         THEN Append(InsertSorted(SubSeq(sorted, 1, Len(sorted) - 1), e),
                     sorted[Len(sorted)])
         ELSE Append(sorted, e)
RECURSIVE SortEntries(_)
SortEntries(list) ==
    IF list = <<>> THEN <<>>
    ELSE InsertSorted(SortEntries(SubSeq(list, 1, Len(list) - 1)), list[Len(list)])

\* The merge test of _merge_adjacent
CanMerge_ignoring_target(prev, entry) ==
    prev.date = entry.date /\ prev.end = entry.start
CanMerge(prev, entry) ==
    /\ prev.date = entry.date
    /\ prev.end = entry.start
    /\ prev.project_id = entry.project_id
    /\ prev.task_id = entry.task_id

\* "; ".join(n for n in [prev.note, entry.note] if n)
JoinNotes_reversed(a, b) == b \o a
JoinNotes(a, b) == a \o b

\* _merge_adjacent
RECURSIVE MergeFrom(_, _, _)
MergeFrom(merged, list, i) ==
    IF i > Len(list) THEN merged
    ELSE LET prev == merged[Len(merged)]
             entry == list[i]
         IN  IF CanMerge(prev, entry)
             THEN MergeFrom(
                    [merged EXCEPT ![Len(merged)] =
                        ExportEntry(prev.date, prev.start, entry.end,
                                    JoinNotes(prev.note, entry.note),
                                    prev.project_id, prev.task_id,
                                    prev.src \o entry.src)],
                    list, i + 1)
             ELSE MergeFrom(Append(merged, entry), list, i + 1)
merge_adjacent_none(list) == list
merge_adjacent(list) ==
    IF list = <<>> THEN <<>> ELSE MergeFrom(<<list[1]>>, list, 2)

\* The overlap test of _detect_overlaps
Overlaps_inclusive(a, b) == a.date = b.date /\ a.start <= b.end /\ b.start <= a.end
Overlaps(a, b) == a.date = b.date /\ a.start < b.end /\ b.start < a.end

\* f"Overlap on {a.date}: {a.start}-{a.end} and {b.start}-{b.end}"
OverlapWarning(a, b) == <<"Overlap on", a.date, a.start, a.end, b.start, b.end>>

\* _detect_overlaps: for i, for j > i
RECURSIVE DetectFrom(_, _, _, _)
DetectFrom(list, i, j, warnings) ==
    IF i > Len(list) THEN warnings
    ELSE IF j > Len(list) THEN DetectFrom(list, i + 1, i + 2, warnings)
    ELSE DetectFrom(list, i, j + 1,
                    IF Overlaps(list[i], list[j])
                    THEN Append(warnings, OverlapWarning(list[i], list[j]))
                    ELSE warnings)
detect_overlaps(list) == DetectFrom(list, 1, 2, <<>>)

\* What one iteration of build_export's loop does with raw entry e
Disposition(e) ==
    IF end_time_is_None(e) THEN "running"
    ELSE IF ProjectName(e) = "" THEN "no project"
    ELSE IF find(entries_, ProjectName(e), TaskName(e)) = <<>> THEN "no mapping"
    ELSE IF local_end_time(e) = NoEnd THEN "no local end"
    ELSE "converted"

Hist(e, did) ==
    [running |-> e.end = NoEnd, did |-> did,
     resolves |-> /\ ProjectName(e) # ""
                  /\ find(entries_, ProjectName(e), TaskName(e)) # <<>>]

\* xlast: of a dropped entry nothing, of an unmapped entry its id,
\* description, project id and task id, of a converted entry its id and
\* its interval
ReadUnmapped(e) ==
    [NoRead EXCEPT !.did = "unmapped", !.id = e.id, !.description = e.description,
                   !.project_id = e.project_id, !.task_id = e.task_id]
ReadConverted(e) ==
    [NoRead EXCEPT !.did = "converted", !.id = e.id, !.start = e.start, !.end = e.end]

\* f"(no project) - {entry.description or entry.id}"
NoProjectKey_id_only(e) == <<"(no project) - ", <<"id", e.id>> >>
NoProjectKey(e) ==
    <<"(no project) - ",
      IF e.description # <<>> THEN e.description ELSE <<"id", e.id>> >>

\* f"{project_name}:{task_name}" if task_name else project_name;
\* <<p, None>> is the key "p", <<p, t>> is "p:t"
UnmappedKey(project_name, task_name) == <<project_name, task_name>>

\* Loop iteration: `continue` on a running timer (or on a missing local end)
ExportSkipRunning ==
    /\ xpc = "loop" /\ xidx < xn
    /\ \E e \in RawEntries(xidx + 1) :
         /\ Disposition(e) \in {"running", "no local end"}
         /\ xhist' = Append(xhist, Hist(e, "dropped"))
         /\ xlast' = [NoRead EXCEPT !.did = "dropped"]
    /\ xidx' = xidx + 1
    /\ UNCHANGED <<xpc, xn, converted, result>>
    /\ UNCHANGED <<syncVars, mapVars, roundVars, requestVars,
                   pageVars, pairVars, oauthVars>>

\* Loop iteration: no project name
ExportNoProject ==
    /\ xpc = "loop" /\ xidx < xn
    /\ \E e \in RawEntries(xidx + 1) :
         /\ Disposition(e) = "no project"
         /\ result' = [result EXCEPT !.unmapped = Append(@, NoProjectKey(e))]
         /\ xhist' = Append(xhist, Hist(e, "unmapped"))
         /\ xlast' = ReadUnmapped(e)
    /\ xidx' = xidx + 1
    /\ UNCHANGED <<xpc, xn, converted>>
    /\ UNCHANGED <<syncVars, mapVars, roundVars, requestVars,
                   pageVars, pairVars, oauthVars>>

\* Loop iteration: mapping.find returns None
ExportNoMapping_silent ==
    /\ xpc = "loop" /\ xidx < xn
    /\ \E e \in RawEntries(xidx + 1) :
         /\ Disposition(e) = "no mapping"
         /\ xhist' = Append(xhist, Hist(e, "unmapped"))
         /\ xlast' = ReadUnmapped(e)
    /\ xidx' = xidx + 1
    /\ UNCHANGED <<xpc, xn, converted, result>>
    /\ UNCHANGED <<syncVars, mapVars, roundVars, requestVars,
                   pageVars, pairVars, oauthVars>>
ExportNoMapping ==
    /\ xpc = "loop" /\ xidx < xn
    /\ \E e \in RawEntries(xidx + 1) :
         /\ Disposition(e) = "no mapping"
         /\ result' = [result EXCEPT !.unmapped =
                          Append(@, UnmappedKey(ProjectName(e), TaskName(e)))]
         /\ xhist' = Append(xhist, Hist(e, "unmapped"))
         /\ xlast' = ReadUnmapped(e)
    /\ xidx' = xidx + 1
    /\ UNCHANGED <<xpc, xn, converted>>
    /\ UNCHANGED <<syncVars, mapVars, roundVars, requestVars,
                   pageVars, pairVars, oauthVars>>

\* Loop iteration: the entry is converted
ExportConvert ==
    /\ xpc = "loop" /\ xidx < xn
    /\ \E e \in RawEntries(xidx + 1) :
         /\ Disposition(e) = "converted"
         /\ LET mapping_entry == find(entries_, ProjectName(e), TaskName(e))[1]
                local_start == local_start_time(e)
                local_end == local_end_time(e)
            IN  converted' = Append(converted,
                    ExportEntry(DateOf(local_start), strftime_HM(local_start),
                                strftime_HM(local_end), e.description,
                                mapping_entry.bamboo_project_id,
                                mapping_entry.bamboo_task_id, <<e.id>>))
         /\ xhist' = Append(xhist, Hist(e, "converted"))
         /\ xlast' = ReadConverted(e)
    /\ xidx' = xidx + 1
    /\ UNCHANGED <<xpc, xn, result>>
    /\ UNCHANGED <<syncVars, mapVars, roundVars, requestVars,
                   pageVars, pairVars, oauthVars>>

\* After the loop: sort, merge, detect overlaps, return
ExportFinish_dropping_overlaps ==
    /\ xpc = "loop" /\ xidx = xn
    /\ LET sorted == SortEntries(converted)
           merged == merge_adjacent(sorted)
       IN  /\ converted' = sorted
           /\ result' = [result EXCEPT
                  !.warnings = @ \o detect_overlaps(merged),
                  !.entries = SelectSeq(merged, LAMBDA b :
                      ~\E k \in 1..Len(merged) :
                          merged[k] # b /\ Overlaps(merged[k], b))]
    /\ xpc' = "done"
    /\ UNCHANGED <<xidx, xn, xhist, xlast>>
    /\ UNCHANGED <<syncVars, mapVars, roundVars, requestVars,
                   pageVars, pairVars, oauthVars>>
ExportFinish ==
    /\ xpc = "loop" /\ xidx = xn
    /\ LET sorted == SortEntries(converted)
           merged == merge_adjacent(sorted)
       IN  /\ converted' = sorted
           /\ result' = [result EXCEPT !.warnings = @ \o detect_overlaps(merged),
                                       !.entries = merged]
    /\ xpc' = "done"
    /\ UNCHANGED <<xidx, xn, xhist, xlast>>
    /\ UNCHANGED <<syncVars, mapVars, roundVars, requestVars,
                   pageVars, pairVars, oauthVars>>

\* The call build_export(time_entries, project_names, task_names, mapping, tz)
ExportInit ==
    /\ xpc = "loop" /\ xidx = 0
    /\ xn \in 0..MaxRaw
    /\ converted = <<>>
    /\ result = [entries |-> <<>>, warnings |-> <<>>, unmapped |-> <<>>]
    /\ xhist = <<>>
    /\ entries_ \in ExportMappings
    /\ found = <<>> /\ query = <<>>
    /\ lastAdded = <<>>
    /\ nAdds = 0
    /\ xlast = NoRead
    /\ SyncIdle /\ RoundIdle /\ RequestIdle
    /\ PagesIdle /\ PairIdle /\ OAuthIdle

ExportNext ==
    \/ ExportSkipRunning
    \/ ExportNoProject
    \/ ExportNoMapping
    \/ ExportConvert
    \/ ExportFinish

SpecExport == ExportInit /\ [][ExportNext]_vars

MappingInit ==
    /\ MapInit /\ SyncIdle /\ ExportIdle /\ RoundIdle /\ RequestIdle
    /\ PagesIdle /\ PairIdle /\ OAuthIdle

MappingNext ==
    \/ MapAdd
    \/ MapFind

SpecMapping == MappingInit /\ [][MappingNext]_vars

----------------------------------------------------------------------------
\* round_to_minute: clockify_export.clockify.models

\* round_to_minute on a datetime [t, microsecond]: the test reads dt.second
\* only, replace(second=0, microsecond=0) clears both fields
round_to_minute_dt(d) == [t |-> round_to_minute(d.t), microsecond |-> 0]

\* The datetimes handed to round_to_minute: every second of 09:30, 09:59 and
\* 23:59 of day 1, with no or the largest microsecond part
RoundInputs ==
    { [t |-> At(1, hm[1], hm[2], sec), microsecond |-> us] :
        hm \in { <<9, 30>>, <<9, 59>>, <<23, 59>> }, sec \in 0..59,
        us \in {0, 999999} }

RoundCall ==
    /\ dt_out = NoDatetime
    /\ dt_out' = round_to_minute_dt(dt_in)
    /\ UNCHANGED dt_in
    /\ UNCHANGED <<syncVars, exportVars, mapVars, requestVars,
                   pageVars, pairVars, oauthVars>>

RoundInit ==
    /\ dt_in \in RoundInputs
    /\ dt_out = NoDatetime
    /\ SyncIdle /\ ExportIdle /\ MapIdle /\ RequestIdle
    /\ PagesIdle /\ PairIdle /\ OAuthIdle

RoundNext ==
    \/ RoundCall

SpecRound == RoundInit /\ [][RoundNext]_vars

----------------------------------------------------------------------------
\* ClockifyClient._request: clockify_export.clockify.client

\* What self.client.request can do: return a response with a status code,
\* or raise an httpx.TransportError
StatusCodes == {200, 404, 500, 503}
TransportErrors == {"ConnectError", "ReadTimeout"}
Outcomes ==
    { <<"response", st>> : st \in StatusCodes }
    \cup { <<"TransportError", er>> : er \in TransportErrors }
IsTransportError(o) == o[1] = "TransportError"

\* response.status_code >= 500
IsServerError(o) == o[1] = "response" /\ o[2] >= 500

\* response.raise_for_status(); return response: HTTPStatusError for a 4xx
\* or 5xx status, which is not a TransportError and leaves _request
Completed(o) == IF o[2] >= 400 THEN "raised" ELSE "returned"

\* The first self.client.request, inside the try block
RequestFirst ==
    /\ rq_pc = "try"
    /\ \E o \in Outcomes :
         /\ rq_sent' = Append(rq_sent, o)
         /\ rq_pc' = IF IsTransportError(o) THEN "retry_transport"
                     ELSE IF IsServerError(o) THEN "retry_status"
                     ELSE Completed(o)
    /\ UNCHANGED rq_calls
    /\ UNCHANGED <<syncVars, exportVars, mapVars, roundVars,
                   pageVars, pairVars, oauthVars>>

\* The retry after a 5xx response; it is still inside the try block, so a
\* TransportError it raises is caught by the except clause
RequestRetryStatus ==
    /\ rq_pc = "retry_status"
    /\ \E o \in Outcomes :
         /\ rq_sent' = Append(rq_sent, o)
         /\ rq_pc' = IF IsTransportError(o) THEN "retry_transport"
                     ELSE Completed(o)
    /\ UNCHANGED rq_calls
    /\ UNCHANGED <<syncVars, exportVars, mapVars, roundVars,
                   pageVars, pairVars, oauthVars>>

\* The retry in the except clause; what it raises leaves _request
RequestRetryTransport ==
    /\ rq_pc = "retry_transport"
    /\ \E o \in Outcomes :
         /\ rq_sent' = Append(rq_sent, o)
         /\ rq_pc' = IF IsTransportError(o) THEN "raised" ELSE Completed(o)
    /\ UNCHANGED rq_calls
    /\ UNCHANGED <<syncVars, exportVars, mapVars, roundVars,
                   pageVars, pairVars, oauthVars>>

\* The client is used for the next _request call
RequestCall ==
    /\ rq_pc \in {"returned", "raised"}
    /\ rq_calls < MaxRequests
    /\ rq_pc' = "try"
    /\ rq_sent' = <<>>
    /\ rq_calls' = rq_calls + 1
    /\ UNCHANGED <<syncVars, exportVars, mapVars, roundVars,
                   pageVars, pairVars, oauthVars>>

\* A ClockifyClient at its first _request call
RequestInit ==
    /\ rq_pc = "try" /\ rq_sent = <<>> /\ rq_calls = 1
    /\ SyncIdle /\ ExportIdle /\ MapIdle /\ RoundIdle
    /\ PagesIdle /\ PairIdle /\ OAuthIdle

RequestNext ==
    \/ RequestFirst
    \/ RequestRetryStatus
    \/ RequestRetryTransport
    \/ RequestCall

SpecRequest == RequestInit /\ [][RequestNext]_vars

----------------------------------------------------------------------------
\* ClockifyClient.get_time_entries: clockify_export.clockify.client

PAGE_SIZE == 50

\* response.json() of page p when the server returns n items: item k of
\* page p is written <<p, k>>
PageData(p, n) == [k \in 1..n |-> <<p, k>>]

\* if len(data) < PAGE_SIZE: break
IsShortPage_or_full(data) == Len(data) <= PAGE_SIZE
IsShortPage(data) == Len(data) < PAGE_SIZE

\* One iteration of `while True`: _request returns a page
PageRequest ==
    /\ pg_pc = "loop"
    /\ page <= MaxPages
    /\ \E n \in 0..PAGE_SIZE :
         LET data == PageData(page, n)
         IN  /\ pg_hist' = Append(pg_hist, [page |-> page, data |-> data,
                                            raised |-> FALSE])
             /\ IF data = <<>>
                THEN /\ pg_pc' = "returned"
                     /\ UNCHANGED <<page, pg_entries>>
                ELSE /\ pg_entries' = pg_entries \o data
                     /\ IF IsShortPage(data)
                        THEN pg_pc' = "returned" /\ page' = page
                        ELSE pg_pc' = "loop" /\ page' = page + 1
    /\ UNCHANGED <<syncVars, exportVars, mapVars, roundVars, requestVars,
                   pairVars, oauthVars>>

\* One iteration of `while True`: _request raises, which leaves
\* get_time_entries
PageRequestRaises ==
    /\ pg_pc = "loop"
    /\ page <= MaxPages
    /\ pg_hist' = Append(pg_hist, [page |-> page, data |-> <<>>, raised |-> TRUE])
    /\ pg_pc' = "raised"
    /\ UNCHANGED <<page, pg_entries>>
    /\ UNCHANGED <<syncVars, exportVars, mapVars, roundVars, requestVars,
                   pairVars, oauthVars>>

\* The call get_time_entries(workspace_id, user_id, start_date, end_date)
PagesInit ==
    /\ pg_pc = "loop" /\ page = 1 /\ pg_entries = <<>> /\ pg_hist = <<>>
    /\ SyncIdle /\ ExportIdle /\ MapIdle /\ RoundIdle /\ RequestIdle
    /\ PairIdle /\ OAuthIdle

PagesNext ==
    \/ PageRequest
    \/ PageRequestRaises

SpecPages == PagesInit /\ [][PagesNext]_vars

----------------------------------------------------------------------------
\* BambooHROAuthClient: work_log_sync.bamboohr.oauth, with the token part
\* of work_log_sync.utils.storage.StorageManager

\* OAuthToken(access_token, refresh_token, expires_in) constructed at time t
OAuthToken(access_token, refresh_token, expires_in, t) ==
    [access_token |-> access_token, refresh_token |-> refresh_token,
     expires_at |-> t + expires_in]

\* OAuthToken.is_expired at time t
is_expired_strict(tok, t) == t > tok.expires_at
is_expired(tok, t) == t >= tok.expires_at

\* json.dumps(token.to_dict()): the string kept in tokens.json
to_dict(tok) == <<"json", tok.access_token, tok.refresh_token, tok.expires_at>>

\* A stored string that is not the JSON of a token
Garbage == <<"not json">>

\* OAuthToken.from_dict(json.loads(s)) inside get_token's try: NoToken when
\* json.loads or a key lookup raises
from_dict(str) ==
    IF str[1] = "json"
    THEN [access_token |-> str[2], refresh_token |-> str[3], expires_at |-> str[4]]
    ELSE NoToken

\* StorageManager.get_token: tokens.get(service); <<>> stands for None
storage_get_token(st, service) == IF service \in DOMAIN st THEN st[service] ELSE <<>>

\* StorageManager.set_token: load, assign, save
set_token(st, service, str) ==
    [k \in (DOMAIN st) \cup {service} |-> IF k = service THEN str ELSE st[k]]

\* What the token endpoint can answer to a refresh: an error status, or a
\* token with a lifetime, with or without a new refresh token
NoResponse == [ok |-> FALSE, access_token |-> 0, refresh_token |-> None, expires_in |-> 0]
RefreshResponses ==
    { NoResponse }
    \cup [ok : {TRUE}, access_token : {1, 2}, refresh_token : {None, StrId("rt2")},
          expires_in : {1, 2}]

\* The token get_token works on after its first block: the one in memory,
\* else the one loaded from storage
HeldToken(tok, st) ==
    IF tok # NoToken THEN tok
    ELSE IF storage_get_token(st, "bamboohr_oauth") # <<>>
    THEN from_dict(storage_get_token(st, "bamboohr_oauth"))
    ELSE NoToken

\* BambooHROAuthClient.refresh_token on held token tok at time t, given the
\* endpoint's response
refresh_token(tok, st, t, resp) ==
    IF ~resp.ok
    THEN [outcome |-> "HTTPError", value |-> NoToken, token |-> tok, stored |-> st,
          posts |-> 1]
    ELSE LET new == OAuthToken(resp.access_token,
                               IF resp.refresh_token = None
                               THEN tok.refresh_token ELSE resp.refresh_token,
                               resp.expires_in, t)
         IN  [outcome |-> "returned", value |-> new, token |-> new,
              stored |-> set_token(st, "bamboohr_oauth", to_dict(new)), posts |-> 1]

\* BambooHROAuthClient.get_token at time t
get_token(tok, st, t, resp) ==
    LET held == HeldToken(tok, st)
    IN  IF held = NoToken
        THEN [outcome |-> "RuntimeError", value |-> NoToken, token |-> NoToken,
              stored |-> st, posts |-> 0]
        ELSE IF is_expired(held, t)
        THEN IF held.refresh_token # None
             THEN refresh_token(held, st, t, resp)
             ELSE [outcome |-> "RuntimeError", value |-> NoToken, token |-> held,
                   stored |-> st, posts |-> 0]
        ELSE [outcome |-> "returned", value |-> held, token |-> held,
              stored |-> st, posts |-> 0]

\* The endpoint is asked only when get_token gets as far as the refresh
Refreshes(tok, st, t) ==
    LET held == HeldToken(tok, st)
    IN  held # NoToken /\ is_expired(held, t) /\ held.refresh_token # None

\* A call of get_token
OAuthGetToken ==
    /\ \E resp \in (IF Refreshes(token_, stored, now)
                    THEN RefreshResponses ELSE {NoResponse}) :
         LET eff == get_token(token_, stored, now, resp)
         IN  /\ token_' = eff.token
             /\ stored' = eff.stored
             /\ oa_last' = [op |-> "get_token", outcome |-> eff.outcome,
                            value |-> eff.value, posts |-> eff.posts, at |-> now,
                            token_before |-> token_, stored_before |-> stored,
                            response |-> OAuthToken(resp.access_token,
                                                    resp.refresh_token,
                                                    resp.expires_in, now)]
    /\ UNCHANGED now
    /\ UNCHANGED <<syncVars, exportVars, mapVars, roundVars, requestVars,
                   pageVars, pairVars>>

\* A call of clear_token: self._token = None, then
\* self.storage.delete_token("bamboohr_oauth"); StorageManager defines no
\* delete_token, so the call raises AttributeError and tokens.json is as before
OAuthClearToken ==
    /\ token_' = NoToken
    /\ stored' = stored
    /\ oa_last' = [op |-> "clear_token", outcome |-> "AttributeError",
                   value |-> NoToken, posts |-> 0, at |-> now,
                   token_before |-> token_, stored_before |-> stored,
                   response |-> NoToken]
    /\ UNCHANGED now
    /\ UNCHANGED <<syncVars, exportVars, mapVars, roundVars, requestVars,
                   pageVars, pairVars>>

\* Time passes
OAuthTick ==
    /\ now < MaxTime
    /\ now' = now + 1
    /\ UNCHANGED <<token_, stored, oa_last>>
    /\ UNCHANGED <<syncVars, exportVars, mapVars, roundVars, requestVars,
                   pageVars, pairVars>>

\* tokens.json when the client is constructed: no "bamboohr_oauth" entry, a
\* damaged one, or a token saved earlier; with or without another service's
\* token
StoredTokens ==
    { to_dict([access_token |-> 0, refresh_token |-> r, expires_at |-> x]) :
        r \in {None, StrId("rt1")}, x \in {1, 2} }
StoredStates ==
    { [k \in {} |-> Garbage] }
    \cup { [k \in {"bamboohr_oauth"} |-> v] : v \in StoredTokens \cup {Garbage} }
    \cup { [k \in {"clockify"} |-> <<"api key">>] }
    \cup { [k \in {"bamboohr_oauth", "clockify"} |->
              IF k = "clockify" THEN <<"api key">> ELSE v] :
           v \in StoredTokens \cup {Garbage} }

OAuthInit ==
    /\ now = 0
    /\ token_ = NoToken
    /\ stored \in StoredStates
    /\ oa_last = NoCall
    /\ SyncIdle /\ ExportIdle /\ MapIdle /\ RoundIdle /\ RequestIdle
    /\ PagesIdle /\ PairIdle

OAuthNext ==
    \/ OAuthGetToken
    \/ OAuthClearToken
    \/ OAuthTick

SpecOAuth == OAuthInit /\ [][OAuthNext]_vars

----------------------------------------------------------------------------
\* Claims about push mode

SnapshotHoldsCandidate ==
    /\ last.checked
    /\ \E b \in existing_entries :
         /\ b.date = last.key[1]
         /\ b.project_id[2] = last.key[2][2]
         /\ b.task_id[2] = last.key[3][2]
         /\ b.hours = last.key[4]

\* C2: a candidate that the snapshot of existing destination entries already
\* holds (same date, project id, task id, hours) is counted as skipped, not
\* as synced, and create_timesheet_entry is not called for it.
C2_DuplicateSuppressed ==
    SnapshotHoldsCandidate => (last.outcome = "skipped" /\ ~last.called)

\* C3: once a create call of the run succeeded with some key, a later entry
\* with the same key is skipped without a create call, and no two
\* successful create calls of one run carry the same key.
C3_InRunDedup ==
    /\ last.createdBefore => (last.outcome = "skipped" /\ ~last.called)
    /\ \A i, j \in 1..Len(calls) :
          (i < j /\ calls[i].ok /\ calls[j].ok) => calls[i].key # calls[j].key
C3_Witness ==
    /\ last.createdBefore /\ last.outcome = "skipped"
    /\ ~dry_run /\ Len(calls) >= 1

\* C5: a Clockify entry with no end time (a running timer) is never written:
\* no create call is made for it and it is not counted as synced.
C5_RunningTimerNeverWritten ==
    ~last.entry.hasEnd => (~last.called /\ last.outcome # "synced")

----------------------------------------------------------------------------
\* Claims about export mode

Elems(list) == { list[i] : i \in 1..Len(list) }

\* The converted entries of index set R, in list order: their ids and notes
RECURSIVE IdsOf(_, _, _)
IdsOf(list, R, i) ==
    IF i > Len(list) THEN <<>>
    ELSE (IF i \in R THEN list[i].src ELSE <<>>) \o IdsOf(list, R, i + 1)
RECURSIVE NotesOf(_, _, _)
NotesOf(list, R, i) ==
    IF i > Len(list) THEN <<>>
    ELSE (IF i \in R THEN list[i].note ELSE <<>>) \o NotesOf(list, R, i + 1)

\* C4: a raw entry with no end time contributes nothing: the loop drops it
\* whether or not its project and mapping resolve, so no converted or output
\* entry is built from it, and the unmapped list holds one key per entry
\* that has an end and failed to resolve, and nothing else.
C4_RunningTimerExcluded ==
    /\ \A i \in 1..Len(xhist) : xhist[i].running => xhist[i].did = "dropped"
    /\ \A c \in Elems(converted) \cup Elems(result.entries) :
          \A id \in Elems(c.src) : ~xhist[id].running
    /\ Len(result.unmapped) =
          Cardinality({ i \in 1..Len(xhist) : ~xhist[i].running /\ ~xhist[i].resolves })
    /\ Len(converted) =
          Cardinality({ i \in 1..Len(xhist) : ~xhist[i].running /\ xhist[i].resolves })
C4_Witness ==
    /\ xpc = "done"
    /\ \E i, j \in 1..Len(xhist) :
          /\ xhist[i].running /\ xhist[i].resolves
          /\ xhist[j].running /\ ~xhist[j].resolves

\* Same date and same destination project and task
SameTarget(a, b) ==
    a.date = b.date /\ a.project_id = b.project_id /\ a.task_id = b.task_id

\* The entries of index set R of the sorted list form a run: each one's
\* end is the start of the next one of R, all with the same date and target
IsRun(list, R) ==
    /\ Cardinality(R) >= 2
    /\ \A a, b \in R :
          (a < b /\ ~\E c \in R : a < c /\ c < b) =>
             (SameTarget(list[a], list[b]) /\ list[a].end = list[b].start)

\* The output holds exactly one entry built from entries of R, and it is
\* built from all of R and spans it, with the notes joined in order
OneOutputEntryFor(list, R) ==
    LET lo == CHOOSE a \in R : \A b \in R : a <= b
        hi == CHOOSE a \in R : \A b \in R : b <= a
        outs == { k \in 1..Len(result.entries) :
                    Elems(result.entries[k].src) \cap Elems(IdsOf(list, R, 1)) # {} }
    IN  /\ Cardinality(outs) = 1
        /\ \A k \in outs :
              /\ result.entries[k].src = IdsOf(list, R, 1)
              /\ result.entries[k].start = list[lo].start
              /\ result.entries[k].end = list[hi].end
              /\ result.entries[k].note = NotesOf(list, R, 1)

\* C6 as claimed: any N >= 2 entries of the same date and target, each
\* ending where the next starts (and not part of a longer such run), come
\* out as exactly one entry spanning the run with the notes joined in order.
C6_AnyRunMerged ==
    xpc = "done" =>
      \A R \in SUBSET (1..Len(converted)) :
         ( /\ IsRun(converted, R)
           /\ ~\E k \in (1..Len(converted)) \ R : IsRun(converted, R \cup {k}) )
         => OneOutputEntryFor(converted, R)

\* C6 as amended: the same, for N >= 2 entries that stand next to each
\* other in the sorted order (positions i..j with no other entry in
\* between), the run not continuing at position i-1 or j+1.
C6_ConsecutiveRunMerged ==
    xpc = "done" =>
      \A i, j \in 1..Len(converted) :
         ( /\ i < j
           /\ IsRun(converted, i..j)
           /\ (i > 1 => ~IsRun(converted, {i - 1, i}))
           /\ (j < Len(converted) => ~IsRun(converted, {j, j + 1})) )
         => OneOutputEntryFor(converted, i..j)
C6_Witness ==
    /\ xpc = "done"
    /\ Len(converted) >= 3
    /\ IsRun(converted, 1..3)
    /\ Len(result.entries) = 1
    /\ Len(result.entries[1].note) = 2

OverlappingPairs ==
    { pr \in (1..Len(result.entries)) \X (1..Len(result.entries)) :
        /\ pr[1] < pr[2]
        /\ result.entries[pr[1]].date = result.entries[pr[2]].date
        /\ result.entries[pr[1]].start < result.entries[pr[2]].end
        /\ result.entries[pr[2]].start < result.entries[pr[1]].end }

Reverse(list) == [i \in 1..Len(list) |-> list[Len(list) + 1 - i]]

\* C8: the warnings are exactly one per unordered pair of output entries
\* with the same date, a.start < b.end and b.start < a.end: each warning
\* text occurs as often as there are overlapping pairs with that text, and
\* the number of warnings is the same when the pairs are taken in the
\* opposite order.
C8_OneWarningPerOverlap ==
    xpc = "done" =>
      /\ Len(result.warnings) = Cardinality(OverlappingPairs)
      /\ \A w \in Elems(result.warnings)
               \cup { OverlapWarning(result.entries[pr[1]], result.entries[pr[2]]) :
                        pr \in OverlappingPairs } :
            Cardinality({ k \in 1..Len(result.warnings) : result.warnings[k] = w })
              = Cardinality({ pr \in OverlappingPairs :
                    << "Overlap on", result.entries[pr[1]].date,
                       result.entries[pr[1]].start, result.entries[pr[1]].end,
                       result.entries[pr[2]].start, result.entries[pr[2]].end >> = w })
      /\ Len(detect_overlaps(Reverse(result.entries))) = Len(result.warnings)
C8_Witness ==
    /\ xpc = "done"
    /\ Len(result.warnings) >= 1
    /\ \E k, l \in 1..Len(result.entries) :
          /\ result.entries[k].date = result.entries[l].date
          /\ result.entries[k].end = result.entries[l].start
          /\ result.entries[k].start < result.entries[k].end
          /\ result.entries[l].start < result.entries[l].end

----------------------------------------------------------------------------
\* Claims about MappingConfig

\* C9: find returns the entry with exactly the queried (project, task) when
\* there is one; only when there is none and the task is not None, the
\* (project, None) entry; otherwise None.
C9_TwoTierLookup ==
    query # <<>> =>
      LET exact == { i \in 1..Len(entries_) :
                       /\ entries_[i].clockify_project = query[1]
                       /\ entries_[i].clockify_task = query[2] }
          general == { i \in 1..Len(entries_) :
                         /\ entries_[i].clockify_project = query[1]
                         /\ entries_[i].clockify_task = None }
      IN  IF exact # {}
          THEN found # <<>> /\ found[1] \in { entries_[i] : i \in exact }
          ELSE IF query[2] # None /\ general # {}
          THEN found # <<>> /\ found[1] \in { entries_[i] : i \in general }
          ELSE found = <<>>
C9_Witness ==
    /\ query # <<>>
    /\ query[2] # None
    /\ found # <<>>
    /\ found[1].clockify_task = query[2]
    /\ \E i, j \in 1..Len(entries_) :
          /\ i < j
          /\ entries_[i].clockify_project = query[1] /\ entries_[i].clockify_task = None
          /\ entries_[j] = found[1]

\* C10: from an empty MappingConfig, after any adds, all_entries() holds at
\* most one entry per (clockify_project, clockify_task), and find on a pair
\* that was added returns the entry most recently added for it.
C10_OneEntryPerPair ==
    /\ \A i, j \in 1..Len(all_entries(entries_)) :
          i # j => PairOf(all_entries(entries_)[i]) # PairOf(all_entries(entries_)[j])
    /\ (query # <<>> /\ query \in DOMAIN lastAdded) => found = <<lastAdded[query]>>
C10_Witness ==
    /\ nAdds >= 2
    /\ Len(entries_) = 1
    /\ query \in DOMAIN lastAdded
    /\ found = <<lastAdded[query]>>

----------------------------------------------------------------------------
\* Further claims about export mode

\* C11: an entry with an end time that does not resolve appends exactly one
\* key to the unmapped list and builds no output entry: the key is
\* "(no project) - <description, or id when the description is empty>" when
\* its project id is absent or not in the lookup, and "<project>" or
\* "<project>:<task>" when the project resolves but the mapping has no entry
\* for it; the loop goes on, so the call returns only after every raw entry
\* was consumed.
C11_UnmappedKeyRecorded ==
    /\ xlast.did = "unmapped" =>
         LET key == result.unmapped[Len(result.unmapped)]
             known == xlast.project_id \in {"p1", "p2"}
             name == IF xlast.project_id = "p1" THEN "P" ELSE "Q"
             task == IF xlast.task_id = "t1" THEN StrId("T") ELSE None
         IN  /\ Len(result.unmapped) >= 1
             /\ ~known => key = <<"(no project) - ",
                                  IF xlast.description # <<>>
                                  THEN xlast.description ELSE <<"id", xlast.id>> >>
             /\ known => key = <<name, task>>
             /\ \A c \in Elems(converted) \cup Elems(result.entries) :
                   xlast.id \notin Elems(c.src)
             /\ xhist[Len(xhist)].did = "unmapped"
    /\ Len(result.unmapped) =
          Cardinality({ i \in 1..Len(xhist) : xhist[i].did = "unmapped" })
    /\ xpc = "done" => xidx = xn /\ Len(xhist) = xn
C11_Witness ==
    /\ xpc = "done"
    /\ Len(xhist) = 3
    /\ xhist[1].did = "unmapped" /\ xhist[2].did = "unmapped"
    /\ xhist[3].did = "converted"
    /\ Len(result.unmapped) = 2
    /\ result.unmapped[1][1] = "(no project) - "
    /\ result.unmapped[2][1] # "(no project) - "
    /\ Len(result.entries) = 1

\* C17: overlaps are only reported: the entries of the result are the whole
\* merged list, and for every warning the two entries it names are both in
\* the result with the date, start and end the warning shows.
C17_OverlapsKeptInResult ==
    xpc = "done" =>
      /\ result.entries = merge_adjacent(converted)
      /\ \A k \in 1..Len(result.warnings) :
            \E i, j \in 1..Len(result.entries) :
               /\ i < j
               /\ result.warnings[k] =
                    <<"Overlap on", result.entries[i].date,
                      result.entries[i].start, result.entries[i].end,
                      result.entries[j].start, result.entries[j].end>>
      /\ \A id \in 1..Len(xhist) :
            xhist[id].did = "converted" =>
               \E c \in Elems(result.entries) : id \in Elems(c.src)
C17_Witness ==
    /\ xpc = "done"
    /\ Len(result.warnings) >= 1
    /\ Len(result.entries) = 3
    /\ OverlappingPairs # {}

\* C18: start and end of a converted entry are the UTC instants of the raw
\* entry shifted to the zone of the export (UTC+1) and then rounded to the
\* minute, so UTC 08:00-12:00 gives 09:00-13:00; the date is the calendar
\* date of the local start, also when the local end is on the next day.
C18_LocalTimeNormalization ==
    xlast.did = "converted" =>
      LET local_start == xlast.start + 3600
          local_end == xlast.end + 3600
          rounded_start == ((local_start + 30) \div 60) * 60
          rounded_end == ((local_end + 30) \div 60) * 60
          built == { i \in 1..Len(converted) : converted[i].src = <<xlast.id>> }
      IN  /\ Cardinality(built) = 1
          /\ \A i \in built :
                /\ converted[i].date = rounded_start \div 86400
                /\ converted[i].start = (rounded_start % 86400) \div 60
                /\ converted[i].end = (rounded_end % 86400) \div 60
                /\ (xlast.start = 2 * 86400 + 8 * 3600 /\ xlast.end = 2 * 86400 + 12 * 3600)
                     => /\ converted[i].date = 2
                        /\ converted[i].start = 9 * 60
                        /\ converted[i].end = 13 * 60
C18_Witness ==
    /\ xpc = "loop"
    /\ xlast.did = "converted"
    /\ xlast.start = At(1, 9, 0, 0) /\ xlast.end = At(1, 23, 30, 0)
    /\ \E c \in Elems(converted) :
          c.src = <<xlast.id>> /\ c.date = 1 /\ c.start = 10 * 60 /\ c.end = 30
    /\ \E c \in Elems(converted) : c.date = 2 /\ c.start = 9 * 60 /\ c.end = 13 * 60

----------------------------------------------------------------------------
\* Further claims about push mode

\* C12: when create_timesheet_entry raises for an entry, that iteration adds
\* one to entries_failed and appends the message to errors, changes no other
\* tally, leaves the dedup set as it was and the configuration as it was for
\* every other mapping key, and the loop goes on: sync returns only after
\* every fetched entry was processed.
C12_CreateFailureIsolated ==
    /\ [][ (pc = "loop" /\ idx' = idx + 1 /\ last'.called /\ ~last'.ok) =>
             /\ entries_failed' = entries_failed + 1
             /\ errors' = Append(errors, "create failed")
             /\ entries_synced' = entries_synced
             /\ entries_skipped' = entries_skipped
             /\ unmapped_entries' = unmapped_entries
             /\ existing_keys' = existing_keys
             /\ \A k \in DOMAIN mapping :
                   k # <<"P", IF last'.entry.task_id # ""
                              THEN "task_" \o last'.entry.task_id ELSE "">>
                     => mapping'[k] = mapping[k]
             /\ pc' = "loop" ]_vars
    /\ [](pc = "done" => idx = nEntries)
C12_Witness ==
    /\ pc = "done"
    /\ Len(calls) = 2
    /\ ~calls[1].ok /\ calls[2].ok
    /\ calls[1].key = calls[2].key
    /\ entries_failed = 1 /\ entries_synced = 1
    /\ errors = <<"create failed">>

\* C13: when one of the prerequisite fetches raises, sync returns a result
\* with exactly one failure and one error message, nothing synced or
\* skipped, no unmapped key, and it has made no create call and has not set
\* the last-sync date.
C13_FatalPrerequisiteFailure ==
    pc = "aborted" =>
      /\ entries_failed = 1
      /\ Len(errors) = 1
      /\ entries_synced = 0 /\ entries_skipped = 0
      /\ unmapped_entries = <<>>
      /\ calls = <<>>
      /\ last_sync_date = "never"
      /\ idx = 0
C13_Witness ==
    /\ pc = "aborted"
    /\ errors = <<"get_timesheet_entries">>

\* C14: an entry whose mapping key the configuration marks as skip once the
\* entry is classified (the mark was there, or the prompt's skip answer for
\* this entry has just saved it) is counted as skipped and no create call
\* is made for it.
C14_SkipMarkedIsSkipped ==
    ( /\ last.outcome # "none"
      /\ last.entry.project_id \in DOMAIN ProjectMap
      /\ should_skip(mapping, MappingKeyOf(last.entry)) )
      => (last.outcome = "skipped" /\ ~last.called)

\* C15: an entry whose project id is absent or not in the project lookup is
\* reported as unmapped.
C15_MissingProjectUnmapped ==
    (last.outcome # "none" /\ last.entry.project_id \notin DOMAIN ProjectMap)
      => last.outcome = "unmapped"

\* C16: a dry run makes no create_timesheet_entry call and does not set the
\* last-sync date.
C16_DryRunChangesNothing ==
    dry_run => (calls = <<>> /\ last_sync_date = "never")
C16_Witness ==
    /\ dry_run
    /\ pc = "done"
    /\ nEntries = 2
    /\ entries_synced >= 1

----------------------------------------------------------------------------
\* Claims about round_to_minute

\* C19: the result of round_to_minute has second and microsecond zero; it
\* is the input truncated to its minute when the input's second is below
\* 30 and one minute later when it is 30 or more, carrying into the hour
\* and the day: 09:30:29 gives 09:30:00, 09:30:30 gives 09:31:00, 09:59:30
\* gives 10:00:00 and 23:59:30 gives 00:00:00 of the next day.
C19_RoundHalfUpWithCarry ==
    dt_out # NoDatetime =>
      LET second == dt_in.t % 60
          truncated == dt_in.t - second
      IN  /\ dt_out.microsecond = 0
          /\ dt_out.t % 60 = 0
          /\ second < 30 => dt_out.t = truncated
          /\ second >= 30 => dt_out.t = truncated + 60
          /\ dt_in.t = 86400 + 9 * 3600 + 30 * 60 + 29
               => dt_out.t = 86400 + 9 * 3600 + 30 * 60
          /\ dt_in.t = 86400 + 9 * 3600 + 30 * 60 + 30
               => dt_out.t = 86400 + 9 * 3600 + 31 * 60
          /\ dt_in.t = 86400 + 9 * 3600 + 59 * 60 + 30
               => dt_out.t = 86400 + 10 * 3600
          /\ dt_in.t = 86400 + 23 * 3600 + 59 * 60 + 30
               => dt_out.t = 2 * 86400
C19_Witness ==
    /\ dt_in = [t |-> At(1, 23, 59, 30), microsecond |-> 999999]
    /\ dt_out = [t |-> At(2, 0, 0, 0), microsecond |-> 0]

----------------------------------------------------------------------------
\* Claims about ClockifyClient._request

\* C20: one call of _request sends the request at most twice, whatever the
\* responses and transport errors are.
C20_AtMostTwoSends ==
    Len(rq_sent) <= 2

----------------------------------------------------------------------------
\* Claims about the merged and sorted output of build_export

\* C21: no two consecutive entries of the result have the same date, the
\* same destination project and task and the earlier one's end equal to the
\* later one's start; and a converted entry is joined to its predecessor in
\* the sorted order exactly when these four conditions hold for the two.
C21_MergeComplete ==
    xpc = "done" =>
      /\ \A i \in 1..(Len(result.entries) - 1) :
            LET a == result.entries[i]
                b == result.entries[i + 1]
            IN  ~( /\ a.date = b.date
                   /\ a.project_id = b.project_id
                   /\ a.task_id = b.task_id
                   /\ a.end = b.start )
      /\ \A i \in 2..Len(converted) :
            LET p == converted[i - 1]
                c == converted[i]
                joined == \E o \in Elems(result.entries) :
                             \E k \in 1..(Len(o.src) - 1) :
                                o.src[k] = p.src[1] /\ o.src[k + 1] = c.src[1]
            IN  joined <=> ( /\ p.date = c.date
                             /\ p.project_id = c.project_id
                             /\ p.task_id = c.task_id
                             /\ p.end = c.start )
C21_Witness ==
    /\ xpc = "done"
    /\ Len(converted) = 3
    /\ Len(result.entries) = 2
    /\ Len(result.entries[2].src) = 2
    /\ result.entries[1].date = result.entries[2].date
    /\ result.entries[1].project_id = result.entries[2].project_id
    /\ result.entries[1].task_id = result.entries[2].task_id

NonDecreasing(list) ==
    \A i \in 1..(Len(list) - 1) :
       \/ list[i].date < list[i + 1].date
       \/ list[i].date = list[i + 1].date /\ list[i].start <= list[i + 1].start
KeepsInputOrder(list) ==
    \A i, j \in 1..Len(list) :
       (i < j /\ list[i].date = list[j].date /\ list[i].start = list[j].start)
         => list[i].src[1] < list[j].src[1]

\* C22: whatever the order of the raw entries, the sorted list and the
\* result are in non-decreasing order of (date, start), and entries with
\* the same (date, start) are in the order in which they came in.
C22_OutputOrder ==
    xpc = "done" =>
      /\ NonDecreasing(converted)
      /\ NonDecreasing(result.entries)
      /\ KeepsInputOrder(converted)
      /\ KeepsInputOrder(result.entries)
C22_Witness ==
    /\ xpc = "done"
    /\ Len(result.entries) = 3
    /\ result.entries[1].src = <<3>>
    /\ result.entries[2].src = <<1>>
    /\ result.entries[3].src = <<2>>
    /\ result.entries[2].date = result.entries[3].date
    /\ result.entries[2].start = result.entries[3].start
    /\ result.entries[1].date < result.entries[2].date

\* C27: every raw entry with an end time is accounted for exactly once: by
\* a key in the unmapped list, or as a constituent of exactly one entry of
\* the result; the number of such raw entries is the number of keys plus
\* the number of result entries plus the number of merges.
C27_Conservation ==
    xpc = "done" =>
      LET ended == { i \in 1..Len(xhist) : ~xhist[i].running }
          places(id) == { pr \in (1..Len(result.entries)) \X (1..MaxRaw + 1) :
                            /\ pr[2] <= Len(result.entries[pr[1]].src)
                            /\ result.entries[pr[1]].src[pr[2]] = id }
          merges == Len(converted) - Len(result.entries)
      IN  /\ \A id \in ended :
                \/ xhist[id].did = "unmapped" /\ places(id) = {}
                \/ xhist[id].did = "converted" /\ Cardinality(places(id)) = 1
          /\ \A id \in (1..Len(xhist)) \ ended : places(id) = {}
          /\ Cardinality({ id \in ended : xhist[id].did = "unmapped" })
               = Len(result.unmapped)
          /\ merges >= 0
          /\ Cardinality(ended) = Len(result.unmapped) + Len(result.entries) + merges
C27_Witness ==
    /\ xpc = "done"
    /\ Len(xhist) = 3
    /\ \A i \in 1..3 : ~xhist[i].running
    /\ Len(result.unmapped) = 1
    /\ Len(result.entries) = 1
    /\ Len(result.entries[1].src) = 2

----------------------------------------------------------------------------
\* Claims about the create calls and the last-sync date of push mode

\* C23: one iteration of the loop makes at most one create_timesheet_entry
\* call, so a run makes at most as many calls as it has processed entries
\* and never calls again for an entry whose call failed; and when the run
\* is not a dry run, entries_synced is the number of calls that succeeded.
C23_NoRetries ==
    /\ [][ /\ Len(calls') <= Len(calls) + 1
           /\ Len(calls') = Len(calls) + 1 => idx' = idx + 1 ]_vars
    /\ []( /\ Len(calls) <= idx
           /\ idx <= nEntries
           /\ ~dry_run =>
                entries_synced = Cardinality({ i \in 1..Len(calls) : calls[i].ok }) )
C23_Witness ==
    /\ pc = "done"
    /\ nEntries = 2
    /\ Len(calls) = 2
    /\ ~calls[1].ok /\ calls[2].ok
    /\ calls[1].key # calls[2].key
    /\ entries_synced = 1 /\ entries_failed = 1

\* C24: an entry whose mapping has a destination project id and no
\* destination task id, and whose key is not a duplicate, is counted as
\* synced, unless the create call was made for it and failed.
C24_OptionalTaskReachesCreate ==
    ( /\ last.outcome # "none"
      /\ last.checked
      /\ last.key[3] = None
      /\ last.outcome # "skipped" )
      => (last.outcome = "synced" \/ (last.called /\ ~last.ok))

\* C26: a run that is not a dry run sets the last-sync date only when no
\* entry failed.
C26_DateOnlyAfterCleanRun ==
    (pc = "done" /\ entries_failed > 0) => last_sync_date = "never"

----------------------------------------------------------------------------
\* Claims about the dry run next to the run that writes

\* C25: on the same entries, mapping and snapshot, the dry run returns the
\* same synced, skipped, failed and unmapped tallies as the run that writes
\* and whose create calls all succeed.
C25_DryRunPredictsRealRun ==
    dr_pc = "done" =>
      /\ dry_result.entries_synced = real_result.entries_synced
      /\ dry_result.entries_skipped = real_result.entries_skipped
      /\ dry_result.entries_failed = real_result.entries_failed
      /\ dry_result.unmapped_entries = real_result.unmapped_entries

----------------------------------------------------------------------------
\* Claims about BambooHROAuthClient

\* The token a get_token call starts from, read off the state before it
PriorToken ==
    IF oa_last.token_before # NoToken THEN oa_last.token_before
    ELSE IF "bamboohr_oauth" \in DOMAIN oa_last.stored_before
            /\ oa_last.stored_before["bamboohr_oauth"][1] = "json"
    THEN [access_token |-> oa_last.stored_before["bamboohr_oauth"][2],
          refresh_token |-> oa_last.stored_before["bamboohr_oauth"][3],
          expires_at |-> oa_last.stored_before["bamboohr_oauth"][4]]
    ELSE NoToken

C29_ClearTokenClearsEverywhere ==
    oa_last.op = "clear_token" =>
      /\ oa_last.outcome = "returned"
      /\ token_ = NoToken
      /\ "bamboohr_oauth" \notin DOMAIN stored
      /\ \A k \in DOMAIN oa_last.stored_before :
            k # "bamboohr_oauth" => (k \in DOMAIN stored /\ stored[k] = oa_last.stored_before[k])

----------------------------------------------------------------------------
\* Claims about ClockifyClient.get_time_entries

\* The items of the first i received pages, in page order
RECURSIVE ReceivedItems(_)
ReceivedItems(i) ==
    IF i = 0 THEN <<>> ELSE ReceivedItems(i - 1) \o pg_hist[i].data

\* C30: the i-th request of a call asks for page i; every page before the
\* last requested one came back with 50 items, so nothing is requested
\* after an empty or shorter page; the call returns as soon as a page with
\* fewer than 50 items has come back, and what it returns is the items of
\* all received pages in page order.
C30_Pagination ==
    /\ \A i \in 1..Len(pg_hist) : pg_hist[i].page = i
    /\ \A i \in 1..(Len(pg_hist) - 1) :
          ~pg_hist[i].raised /\ Len(pg_hist[i].data) = 50
    /\ pg_pc = "returned" <=>
          ( /\ Len(pg_hist) >= 1
            /\ ~pg_hist[Len(pg_hist)].raised
            /\ Len(pg_hist[Len(pg_hist)].data) < 50 )
    /\ pg_pc \in {"loop", "returned"} =>
          pg_entries = ReceivedItems(Len(pg_hist))
    /\ pg_pc = "loop" => page = Len(pg_hist) + 1
C30_Witness ==
    /\ pg_pc = "returned"
    /\ Len(pg_hist) = 3
    /\ pg_hist[3].data = <<>>
    /\ Len(pg_entries) = 100
    /\ pg_entries[51] = <<2, 1>>

====
